---- MODULE Spec2Model ----
(***************************************************************************)
(* A model of the SortSense reorganisation engine (sortsense/engine.py)    *)
(* and of its transaction ledger (sortsense/utils.py).                     *)
(*                                                                         *)
(* The file system is a function from paths (sequences of names) to nodes; *)
(* a node is a file or a directory and carries an identity, so that "the   *)
(* item that was moved" can be told from "some item at that path".         *)
(* Confidences and thresholds are kept in hundredths (0.8 is 80).          *)
(***************************************************************************)
EXTENDS Integers, Sequences, FiniteSets, TLC

VARIABLES
    fs,             \* the file system: path -> [kind, id]
    cache,          \* SortSense._folder_path_cache: leaf name -> relative path
    results,        \* SortSense.results: sequence of FileAnalysis
    folder_results, \* SortSense.folder_results: sequence of FolderAnalysis
    session_id,     \* SortSense.session_id
    use_vision,     \* SortSense.use_vision
    default_category, \* config.settings.default_category
    ledger,         \* TransactionLog.transactions (in memory)
    disk,           \* the persisted ledger file's "transactions"
    gh,             \* history, parallel to ledger: what each entry moved
    last,           \* history: the last operation and what it returned
    ops,            \* number of operations performed so far
    nextSid,        \* session ids handed out so far
    tampered,       \* history: how often something outside the engine changed the disk
    acache,         \* history: the cache the last analyze_folder saw
    limit,          \* the number of operations a behaviour may perform
    saves           \* how often the ledger file was written (its "last_updated")

vars == <<fs, cache, results, folder_results, session_id, use_vision, default_category, ledger,
          disk, gh, last, ops, nextSid, tampered, acache, limit, saves>>

-----------------------------------------------------------------------------
(* Bounds of the model.                                                    *)

MaxOps == 3
MaxOpsRound == 6
MaxSessions == 3
MaxTamper == 1

-----------------------------------------------------------------------------
(* Names and the string conversions the engine applies to them.            *)

SRC == <<"downloads">>
DST == <<"organized">>

EmptyFn == [x \in {} |-> x]

\* str.lower() on the names of the model
Lower(s) ==
    CASE s = "Old Tax" -> "old tax"
      [] s = "App.app" -> "app.app"
      [] s = "GTFS" -> "gtfs"
      [] s = "GTFS-notes" -> "gtfs-notes"
      [] s = "Housing" -> "housing"
      [] s = "Venv" -> "venv"
      [] OTHER -> s

\* str.replace(' ', '-')
Dashed(s) ==
    CASE s = "old tax" -> "old-tax"
      [] s = "Old Tax" -> "Old-Tax"
      [] OTHER -> s

\* os.path.splitext on the file names of the model
SplitExt(s) ==
    CASE s = "report.pdf" -> <<"report", ".pdf">>
      [] s = "report_1.pdf" -> <<"report_1", ".pdf">>
      [] s = "y.txt" -> <<"y", ".txt">>
      [] s = "n.txt" -> <<"n", ".txt">>
      [] s = "pic.jpg" -> <<"pic", ".jpg">>
      [] OTHER -> <<s, "">>

\* str.endswith('.app')
EndsWithApp(s) == s \in {"App.app"}

\* str.startswith('.')
IsHiddenName(s) == s \in {".git", ".cache"}

-----------------------------------------------------------------------------
(* Paths and the file system.                                              *)

Basename(p) == IF Len(p) = 0 THEN "" ELSE p[Len(p)]
Dirname(p) == IF Len(p) = 0 THEN p ELSE SubSeq(p, 1, Len(p) - 1)
IsPrefix(p, q) == Len(p) <= Len(q) /\ SubSeq(q, 1, Len(p)) = p
Rebase(q, from, to) == to \o SubSeq(q, Len(from) + 1, Len(q))

Exists(f, p) == p \in DOMAIN f
IsDir(f, p) == p \in DOMAIN f /\ f[p].kind = "dir"
IsFile(f, p) == p \in DOMAIN f /\ f[p].kind = "file"

Ancestors(p) == {SubSeq(p, 1, k) : k \in 1..Len(p)}
Children(f, p) == {q \in DOMAIN f : Len(q) = Len(p) + 1 /\ IsPrefix(p, q)}
Under(f, p) == {q \in DOMAIN f : IsPrefix(p, q)}

MkNode == [kind |-> "dir", id |-> "mk"]

\* os.makedirs(p, exist_ok=True): every missing ancestor is created; it raises
\* when p or one of its ancestors is a file, before anything is created.
MakeDirs(f, p) ==
    IF \E a \in Ancestors(p) : IsFile(f, a)
    THEN [ok |-> FALSE, fs |-> f]
    ELSE [ok |-> TRUE,
          fs |-> [q \in DOMAIN f \cup Ancestors(p) |->
                    IF q \in DOMAIN f THEN f[q] ELSE MkNode]]

\* os.rename(src, dst) on one device.
Rename(f, src, dst) ==
    LET moved == Under(f, src)
        gone == moved \cup Under(f, dst)
        okay == /\ Exists(f, src)
                /\ Len(dst) > 0
                /\ (Len(dst) = 1 \/ IsDir(f, Dirname(dst)))
                /\ ~IsPrefix(src, dst)
                /\ (Exists(f, dst) =>
                      \/ IsFile(f, src) /\ IsFile(f, dst)
                      \/ IsDir(f, src) /\ IsDir(f, dst) /\ Children(f, dst) = {})
    IN IF ~okay THEN [ok |-> FALSE, fs |-> f]
       ELSE [ok |-> TRUE,
             fs |-> [q \in (DOMAIN f \ gone) \cup {Rebase(m, src, dst) : m \in moved} |->
                       IF q \in DOMAIN f \ gone THEN f[q]
                       ELSE f[Rebase(q, dst, src)]]]

\* shutil.move(src, dst): into dst when dst is a directory, else onto dst.
\* When os.rename fails the copy fallback fails for the same reason.
ShutilMove(f, src, dst) ==
    LET real_dst == IF IsDir(f, dst) THEN dst \o <<Basename(src)>> ELSE dst
    IN IF IsDir(f, dst) /\ Exists(f, real_dst)
       THEN [ok |-> FALSE, fs |-> f]
       ELSE Rename(f, src, real_dst)

-----------------------------------------------------------------------------
(* Directory listings.  os.scandir, Path.iterdir and os.walk return the    *)
(* entries of a directory in an order the file system chooses; the model   *)
(* lists them by NameOrder, forwards or backwards.                         *)

NameOrder ==
    <<"App.app", "GTFS", "GTFS-notes", "Old Tax", "a", "b", "bin", "documents", "housing",
      "Housing", "n.txt", "old-tax", "personal", "report.pdf", "report_1.pdf",
      "y.txt", "misc", "downloaded-apps">>

Rank(n) ==
    IF \E i \in 1..Len(NameOrder) : NameOrder[i] = n
    THEN CHOOSE i \in 1..Len(NameOrder) : NameOrder[i] = n
    ELSE 0

RECURSIVE Sorted(_, _)
Sorted(S, rev) ==
    IF S = {} THEN <<>>
    ELSE LET x == CHOOSE c \in S : \A d \in S :
                     IF rev THEN Rank(Basename(c)) >= Rank(Basename(d))
                     ELSE Rank(Basename(c)) <= Rank(Basename(d))
         IN <<x>> \o Sorted(S \ {x}, rev)

ListDir(f, p, rev) == Sorted(Children(f, p), rev)

Take(s, n) == SubSeq(s, 1, IF n < Len(s) THEN n ELSE Len(s))
Range(s) == {s[i] : i \in 1..Len(s)}

-----------------------------------------------------------------------------
(* The Category Registry (config.categories) and the classifier's verdict  *)
(* on each file of the model.                                              *)

\* category -> its "folder" (a relative path)
Registry ==
    [documents |-> <<"documents">>,
     housing |-> <<"housing">>,
     misc |-> <<"misc">>]

SkipHidden == TRUE

\* the files of a cohesion sample: a letter for what the classifier makes of
\* the file (A, B, C: three categories, D: no match) and the file's position
MaxSample == 5
SampleIds(letter) == {letter \o ToString(i) : i \in 1..MaxSample}

\* What Categorizer.categorize and the vision analyser return for the content
\* of each file (by identity): keyword category and score, vision category,
\* vision score (hundredths) and cleaned vision label.
Meta(id) ==
    CASE id \in SampleIds("A") -> [cat |-> "documents", score |-> 1, vcat |-> "", vscore |-> 0, vlabel |-> ""]
      [] id \in SampleIds("B") -> [cat |-> "housing", score |-> 1, vcat |-> "", vscore |-> 0, vlabel |-> ""]
      [] id \in SampleIds("C") -> [cat |-> "dev", score |-> 1, vcat |-> "", vscore |-> 0, vlabel |-> ""]
      [] id = "r1" -> [cat |-> "documents", score |-> 3, vcat |-> "", vscore |-> 0, vlabel |-> ""]
      [] id = "r2" -> [cat |-> "documents", score |-> 2, vcat |-> "", vscore |-> 0, vlabel |-> ""]
      [] id = "y" -> [cat |-> "housing", score |-> 1, vcat |-> "", vscore |-> 0, vlabel |-> ""]
      [] OTHER -> [cat |-> default_category, score |-> 0, vcat |-> "", vscore |-> 0, vlabel |-> ""]

ImageExtensions == {".jpg", ".jpeg", ".png", ".gif", ".bmp", ".webp", ".heic"}
DefaultLiterals == {"uncategorized", "unsorted"}

\* SortSense.get_folder_path, with the cache given
FolderPathWith(c, category) ==
    LET folder_name == IF category \in DOMAIN Registry THEN Registry[category]
                       ELSE <<category>>
        leaf_name == Lower(Basename(folder_name))
    IN IF leaf_name \in DOMAIN c THEN c[leaf_name] ELSE folder_name

\* a get_folder_path that never consults the folder cache
get_folder_path_registry(category) ==
    IF category \in DOMAIN Registry THEN Registry[category] ELSE <<category>>

get_folder_path(category) == FolderPathWith(cache, category)

IgnoreFolders ==
    {"downloads", "desktop", "documents", "pictures", "videos", "music",
     "home", "users", "tmp", "temp", "~"}

\* SortSense.detect_subfolder; no category of the Registry is a financial one,
\* so the institution table is never consulted.
detect_subfolder(filepath, category) ==
    LET parent_folder == Basename(Dirname(filepath))
    IN IF Lower(parent_folder) \notin IgnoreFolders /\ ~IsHiddenName(parent_folder)
       THEN Dashed(Lower(parent_folder))
       ELSE ""

\* SortSense.analyze_file
analyze_file(f, filepath) ==
    LET filename == Basename(filepath)
        ext == Lower(SplitExt(filename)[2])
        m == Meta(f[filepath].id)
        byVision == /\ use_vision
                    /\ m.cat \in DefaultLiterals
                    /\ ext \in ImageExtensions
                    /\ m.vcat # ""
                    /\ m.vscore > 30
        category == IF byVision THEN m.vcat ELSE m.cat
    IN [filepath |-> filepath,
        filename |-> filename,
        category |-> category,
        confidence_score |-> IF byVision THEN [isInt |-> FALSE, val |-> m.vscore]
                             ELSE [isInt |-> TRUE, val |-> m.score],
        recommended_destination |-> DST \o get_folder_path(category),
        vision_label |-> IF byVision THEN m.vlabel ELSE "",
        detected_subfolder |-> detect_subfolder(filepath, category)]

FilesUnder(f, p) == {q \in Under(f, p) : f[q].kind = "file"}

CohesivePatterns == [gtfs |-> "dev", node_modules |-> "", __pycache__ |-> "",
                     venv |-> "", env |-> ""]
CohesiveNames == DOMAIN CohesivePatterns \cup {".git"}

FolderAnalysis(folder_path, cat, conf, dest) ==
    [folder_path |-> folder_path,
     folder_name |-> Basename(folder_path),
     file_count |-> Cardinality(FilesUnder(fs, folder_path)),
     dominant_category |-> cat,
     confidence_score |-> conf,
     is_cohesive |-> TRUE,
     recommended_destination |-> dest,
     analysis_type |-> "cohesive_folder"]

NotCohesive == [is_cohesive |-> FALSE]

\* SortSense.analyze_folder_cohesion: None is NotCohesive
analyze_folder_cohesion(folder_path, rev) ==
    LET folder_name_lower == Lower(Basename(folder_path))
        listing == ListDir(fs, folder_path, rev)
        plain == SelectSeq(listing, LAMBDA q : IsFile(fs, q) /\ ~IsHiddenName(Basename(q)))
        sample_files == Take(plain, 5)
        cats == [i \in 1..Len(sample_files) |-> analyze_file(fs, sample_files[i]).category]
        count(c) == Cardinality({i \in 1..Len(cats) : cats[i] = c})
        total_sampled == Len(sample_files)
        \* dict order: categories by first appearance in the sample
        firstAt(c) == CHOOSE i \in 1..Len(cats) : cats[i] = c /\ \A j \in 1..(i-1) : cats[j] # c
        major == {c \in Range(cats) : c \notin DefaultLiterals /\ count(c) * 100 >= 80 * total_sampled}
        winner == CHOOSE c \in major : \A d \in major : firstAt(c) <= firstAt(d)
    IN IF folder_name_lower \in CohesiveNames
       THEN IF folder_name_lower = ".git" \/ CohesivePatterns[folder_name_lower] = ""
            THEN NotCohesive
            ELSE FolderAnalysis(folder_path, CohesivePatterns[folder_name_lower], 100,
                     DST \o get_folder_path(CohesivePatterns[folder_name_lower])
                         \o <<folder_name_lower>>)
       ELSE IF sample_files = <<>> THEN NotCohesive
       ELSE IF Cardinality(Range(cats)) = 1 /\ cats[1] \notin DefaultLiterals
            THEN FolderAnalysis(folder_path, cats[1], 100,
                     DST \o get_folder_path(cats[1]) \o <<Dashed(folder_name_lower)>>)
       ELSE IF major # {}
            THEN FolderAnalysis(folder_path, winner, (count(winner) * 100) \div total_sampled,
                     DST \o get_folder_path(winner) \o <<Dashed(folder_name_lower)>>)
       ELSE NotCohesive

-----------------------------------------------------------------------------
(* analyze_folder, on the source folder SRC.                               *)

IndividualAnalysisFolders == {"statements", "bank", "bills", "invoices", "receipts"}

AppBundle(path) ==
    [folder_path |-> path,
     folder_name |-> Basename(path),
     file_count |-> Cardinality(FilesUnder(fs, path)),
     dominant_category |-> "downloaded-apps",
     confidence_score |-> 100,
     is_cohesive |-> TRUE,
     recommended_destination |-> DST \o <<"downloaded-apps">>,
     analysis_type |-> "app_bundle"]

\* the first pass over one entry of the source folder
FirstPassEntry(path, rev) ==
    IF IsDir(fs, path) /\ EndsWithApp(Basename(path)) THEN AppBundle(path)
    ELSE IF /\ IsDir(fs, path)
            /\ ~IsHiddenName(Basename(path))
            /\ Lower(Basename(path)) \notin IndividualAnalysisFolders
         THEN analyze_folder_cohesion(path, rev)
    ELSE NotCohesive

FirstPass(rev) ==
    LET listing == ListDir(fs, SRC, rev)
        all == [i \in 1..Len(listing) |-> FirstPassEntry(listing[i], rev)]
    IN SelectSeq(all, LAMBDA a : a.is_cohesive)

\* a.startswith(b) on the names of the model
NameStartsWith(a, b) == a = b \/ <<a, b>> \in {<<"GTFS-notes", "GTFS">>}

\* root.startswith(skip_path), on the path strings
PathStartsWith(root, sp) ==
    /\ Len(root) >= Len(sp)
    /\ Len(sp) > 0
    /\ SubSeq(root, 1, Len(sp) - 1) = Dirname(sp)
    /\ NameStartsWith(root[Len(sp)], Basename(sp))

RECURSIVE Flatten(_)
Flatten(ss) == IF ss = <<>> THEN <<>> ELSE Head(ss) \o Flatten(Tail(ss))

\* the os.walk loop of analyze_folder: the files collected at and below root
RECURSIVE WalkFiles(_, _, _)
WalkFiles(root, skip_paths, rev) ==
    LET listing == ListDir(fs, root, rev)
        skipRoot == \E sp \in skip_paths : PathStartsWith(root, sp)
        dirs == SelectSeq(listing, LAMBDA q :
                    /\ IsDir(fs, q)
                    /\ (skipRoot \/
                         /\ ~(SkipHidden /\ IsHiddenName(Basename(q)))
                         /\ q \notin skip_paths))
        files == IF skipRoot THEN <<>>
                 ELSE SelectSeq(listing, LAMBDA q :
                          IsFile(fs, q) /\ ~(SkipHidden /\ IsHiddenName(Basename(q))))
    IN files \o Flatten([i \in 1..Len(dirs) |-> WalkFiles(dirs[i], skip_paths, rev)])

\* a collection of files that skips nothing
FilesToProcessAll(recursive, max_files, skip_paths, rev) ==
    LET found == IF recursive THEN WalkFiles(SRC, {}, rev)
                 ELSE SelectSeq(ListDir(fs, SRC, rev), LAMBDA q :
                          IsFile(fs, q) /\ ~(SkipHidden /\ IsHiddenName(Basename(q))))
    IN IF max_files # 0 THEN Take(found, max_files) ELSE found

FilesToProcess(recursive, max_files, skip_paths, rev) ==
    LET found == IF recursive THEN WalkFiles(SRC, skip_paths, rev)
                 ELSE SelectSeq(ListDir(fs, SRC, rev), LAMBDA q :
                          IsFile(fs, q) /\ ~(SkipHidden /\ IsHiddenName(Basename(q))))
    IN IF max_files # 0 THEN Take(found, max_files) ELSE found

MaxFilesChoices == {0, 1}

Analyze(recursive, max_files, rev) ==
    /\ ops < limit
    /\ \E found \in {FirstPass(rev)} :
          \E todo \in {FilesToProcess(recursive, max_files,
                                      {found[i].folder_path : i \in 1..Len(found)}, rev)} :
             /\ folder_results' = found
             /\ results' = [i \in 1..Len(todo) |-> analyze_file(fs, todo[i])]
    /\ acache' = cache
    /\ last' = [op |-> "analyze", recursive |-> recursive, max_files |-> max_files]
    /\ ops' = ops + 1
    /\ UNCHANGED <<fs, cache, session_id, use_vision, default_category, ledger, disk, gh, nextSid, tampered, limit, saves>>

-----------------------------------------------------------------------------
(* The transaction ledger (TransactionLog).                                *)

\* TransactionLog.log_move: the entry appended
Entry(source, destination, category, sid) ==
    [session_id |-> sid, source |-> source, destination |-> destination,
     category |-> category, undone |-> FALSE]

\* a get_last_session that overlooks the undone flag
get_last_session_any(log) ==
    IF log = <<>> THEN 0 ELSE log[Len(log)].session_id

\* TransactionLog.get_last_session: 0 is None
get_last_session(log) ==
    LET live == {i \in 1..Len(log) : ~log[i].undone}
    IN IF live = {} THEN 0
       ELSE log[CHOOSE i \in live : \A j \in live : j <= i].session_id

\* a get_session_moves that overlooks the session id
get_session_moves_all(log, sid) ==
    {i \in 1..Len(log) : ~log[i].undone}

\* a get_session_moves that overlooks the undone flag
get_session_moves_again(log, sid) ==
    {i \in 1..Len(log) : log[i].session_id = sid}

\* TransactionLog.get_session_moves, as the indices of the entries returned
get_session_moves(log, sid) ==
    {i \in 1..Len(log) : log[i].session_id = sid /\ ~log[i].undone}

\* a mark_undone that drops the entries of the session instead of flagging them
mark_undone_dropping(log, sid) ==
    SelectSeq(log, LAMBDA e : ~(e.session_id = sid /\ ~e.undone))

\* TransactionLog.mark_undone
mark_undone(log, sid) ==
    [i \in 1..Len(log) |->
        IF log[i].session_id = sid /\ ~log[i].undone
        THEN [log[i] EXCEPT !.undone = TRUE]
        ELSE log[i]]

-----------------------------------------------------------------------------
(* execute_moves.                                                          *)

misc_folder == DST \o <<"personal", "misc">>

\* the normalisation of confidence_score, in hundredths
Normalized(c) ==
    IF c.isInt /\ c.val > 1 THEN c.val * 20
    ELSE IF c.isInt THEN c.val * 100
    ELSE c.val

\* the collision loop: dest_folder/base_counter+ext for the first free counter
RECURSIVE FreePath(_, _, _, _, _)
FreePath(f, dest_folder, base, ext, counter) ==
    LET p == dest_folder \o <<base \o "_" \o ToString(counter) \o ext>>
    IN IF Exists(f, p) THEN FreePath(f, dest_folder, base, ext, counter + 1) ELSE p

\* the path the move targets: the literal one when free, else the renamed one
FolderTarget(f, dest_folder, folder_name) ==
    IF Exists(f, dest_folder \o <<folder_name>>)
    THEN FreePath(f, dest_folder, folder_name, "", 1)
    ELSE dest_folder \o <<folder_name>>

\* a file phase that moves onto the literal path whatever is there
FileTargetLiteral(f, dest_folder, filename) == dest_folder \o <<filename>>

FileTarget(f, dest_folder, filename) ==
    IF Exists(f, dest_folder \o <<filename>>)
    THEN FreePath(f, dest_folder, SplitExt(filename)[1], SplitExt(filename)[2], 1)
    ELSE dest_folder \o <<filename>>

\* the top-level directories of the destination, lower-cased
ExistingFolders(f) ==
    {Lower(Basename(q)) : q \in {c \in Children(f, DST) :
                                   IsDir(f, c) /\ ~IsHiddenName(Basename(c))}}

Inc(counts, category) ==
    IF category \in DOMAIN counts
    THEN [counts EXCEPT ![category] = @ + 1]
    ELSE counts @@ (category :> 1)

Touch(counts, category) ==
    IF category \in DOMAIN counts THEN counts ELSE counts @@ (category :> 0)

\* folder_decisions.get(name, False)
Decided(decisions, name) ==
    IF name \in DOMAIN decisions THEN decisions[name] ELSE FALSE

\* what one item of the run came to: for the history only
Outcome(phase, src, category, dest_folder, what, dest_path, proposed, prompted, persisted) ==
    [phase |-> phase, src |-> src, category |-> category,
     dest_folder |-> dest_folder, what |-> what, dest_path |-> dest_path,
     proposed |-> proposed, prompted |-> prompted, persisted |-> persisted]

\* TransactionLog._save: the file is rewritten with the whole list
_save(rs) == [rs EXCEPT !.disk = rs.ledger, !.saves = @ + 1]

\* a log_move that appends to the list in memory and leaves the file alone
log_move_unsaved(rs, source, destination, category) ==
    [rs EXCEPT !.ledger = Append(@, Entry(source, destination, category, session_id))]

\* TransactionLog.log_move
log_move(rs, source, destination, category) ==
    _save([rs EXCEPT !.ledger = Append(@, Entry(source, destination, category, session_id))])

\* a test that takes every folder name for one not asked about yet
UndecidedAlways(decisions, name) == TRUE

\* folder_name not in folder_decisions
Undecided(decisions, name) == name \notin DOMAIN decisions

\* one iteration of the folder phase (PHASE 1)
FolderStep(rs, fr, P) ==
    LET dest_folder == fr.recommended_destination
        category == fr.dominant_category
        folder_name == Lower(Basename(dest_folder))
        gate == P.interactive /\ ~P.dry_run /\ folder_name \notin rs.existing
        ask == gate /\ Undecided(rs.decisions, folder_name)
        answer == folder_name \in P.accept
        rs1 == IF ask
               THEN [rs EXCEPT !.decisions = (folder_name :> answer) @@ @,
                               !.existing = IF answer THEN @ \cup {folder_name} ELSE @,
                               !.asked = Append(@, folder_name)]
               ELSE rs
        rejected == gate /\ ~Decided(rs1.decisions, folder_name)
        counts0 == Touch(rs1.move_counts, category)
        mk == MakeDirs(rs1.fs, dest_folder)
        dest_path == FolderTarget(mk.fs, dest_folder, fr.folder_name)
        mv == ShutilMove(mk.fs, fr.folder_path, dest_path)
        logged == log_move([rs1 EXCEPT !.fs = mv.fs], fr.folder_path, dest_path, category)
        note(what, dp, on) == Append(rs1.plan,
                                Outcome("folder", fr.folder_path, category, dest_folder, what, dp,
                                        IF gate THEN folder_name ELSE "", ask, Len(on.disk)))
    IN IF rejected
       THEN [rs1 EXCEPT !.skipped = @ + 1, !.plan = note("skipped", <<>>, rs1)]
       ELSE IF P.dry_run
       THEN [rs1 EXCEPT !.move_counts = Inc(counts0, category),
                        !.folders_moved = @ + 1,
                        !.plan = note("dry", <<>>, rs1)]
       ELSE IF ~mk.ok
       THEN [rs1 EXCEPT !.move_counts = counts0, !.errors = @ + 1,
                        !.plan = note("error", <<>>, rs1)]
       ELSE IF ~mv.ok
       THEN [rs1 EXCEPT !.fs = mk.fs, !.move_counts = counts0, !.errors = @ + 1,
                        !.plan = note("error", dest_path, rs1)]
       ELSE [logged EXCEPT !.gh = Append(@, [id |-> rs1.fs[fr.folder_path].id,
                                             kind |-> "folder", run |-> P.run]),
                           !.move_counts = Inc(counts0, category),
                           !.folders_moved = @ + 1,
                           !.plan = note("moved", dest_path, logged)]

\* a test that takes no category for the default one
IsDefaultNever(category) == FALSE

\* category == default_cat
IsDefault(category) == category = default_category

\* one iteration of the file phase (PHASE 2)
FileStep(rs, r, P) ==
    LET conf == Normalized(r.confidence_score)
        toMisc == P.misc_threshold > 0 /\ conf < P.misc_threshold
        skipDefault == ~toMisc /\ IsDefault(r.category)
        category0 == IF toMisc THEN "misc" ELSE r.category
        dest0 == IF toMisc THEN misc_folder ELSE r.recommended_destination
        folder_name == Lower(Basename(dest0))
        folder_exists == folder_name \in rs.existing
        parent_category_folder == dest0
        hasSub == r.detected_subfolder # ""
        subfolder_path == dest0 \o <<r.detected_subfolder>>
        subfolder_exists == hasSub /\ Exists(rs.fs, subfolder_path)
        is_subfolder == hasSub /\ ~subfolder_exists
        prompt1 == IF is_subfolder THEN r.detected_subfolder ELSE ""
        dest1 == IF hasSub /\ (subfolder_exists \/ P.dry_run) THEN subfolder_path ELSE dest0
        inter == P.interactive /\ ~P.dry_run
        visionBranch == prompt1 = "" /\ r.vision_label # "" /\ r.vision_label # folder_name
        vision_folder_exists == r.vision_label \in rs.existing \/ r.vision_label \in DOMAIN cache
        visionNew == visionBranch /\ ~vision_folder_exists
        vision_dest == DST \o <<"personal", r.vision_label>>
        prompt_folder == IF visionNew THEN r.vision_label
                         ELSE IF ~visionBranch /\ prompt1 = "" /\ ~folder_exists THEN folder_name
                         ELSE prompt1
        dest2 == IF visionNew THEN vision_dest ELSE dest1
        ask == inter /\ prompt_folder # "" /\ Undecided(rs.decisions, prompt_folder)
        answer == prompt_folder \in P.accept
        rs1 == IF ask
               THEN [rs EXCEPT !.decisions = (prompt_folder :> answer) @@ @,
                               !.existing = IF answer THEN @ \cup {prompt_folder} ELSE @,
                               !.asked = Append(@, prompt_folder)]
               ELSE rs
        dest3 == IF ask /\ answer
                 THEN IF is_subfolder THEN parent_category_folder \o <<r.detected_subfolder>>
                      ELSE IF r.vision_label # "" /\ prompt_folder = r.vision_label THEN vision_dest
                      ELSE dest2
                 ELSE dest2
        rejected == inter /\ prompt_folder # "" /\ ~Decided(rs1.decisions, prompt_folder)
        misc_base == IF is_subfolder THEN parent_category_folder ELSE dest3
        category_name == Basename(misc_base)
        category == IF rejected THEN category_name \o "-misc" ELSE category0
        dest_folder == IF ~inter THEN dest1
                       ELSE IF rejected THEN misc_base \o <<category_name \o "-misc">>
                       ELSE dest3
        skipExisting == ~inter /\ P.existing_only /\ ~folder_exists
        counts0 == Touch(rs1.move_counts, category)
        mk == IF P.existing_only THEN [ok |-> TRUE, fs |-> rs1.fs]
              ELSE MakeDirs(rs1.fs, dest_folder)
        dest_path == FileTarget(mk.fs, dest_folder, r.filename)
        mv == ShutilMove(mk.fs, r.filepath, dest_path)
        logged == log_move([rs1 EXCEPT !.fs = mv.fs], r.filepath, dest_path, category)
        note(what, dp, on) == Append(rs1.plan,
                                Outcome("file", r.filepath, category, dest_folder, what, dp,
                                        IF inter THEN prompt_folder ELSE "", ask, Len(on.disk)))
    IN IF skipDefault
       THEN [rs EXCEPT !.skipped = @ + 1,
                       !.plan = Append(@, Outcome("file", r.filepath, r.category, <<>>,
                                                  "skipped", <<>>, "", FALSE, Len(rs.disk)))]
       ELSE IF skipExisting
       THEN [rs1 EXCEPT !.skipped = @ + 1, !.plan = note("skipped", <<>>, rs1)]
       ELSE IF P.dry_run
       THEN [rs1 EXCEPT !.move_counts = Inc(counts0, category), !.plan = note("dry", <<>>, rs1)]
       ELSE IF ~mk.ok
       THEN [rs1 EXCEPT !.move_counts = counts0, !.errors = @ + 1,
                        !.plan = note("error", <<>>, rs1)]
       ELSE IF ~mv.ok
       THEN [rs1 EXCEPT !.fs = mk.fs, !.move_counts = counts0, !.errors = @ + 1,
                        !.plan = note("error", dest_path, rs1)]
       ELSE [logged EXCEPT !.gh = Append(@, [id |-> rs1.fs[r.filepath].id,
                                             kind |-> "file", run |-> P.run]),
                           !.move_counts = Inc(counts0, category),
                           !.plan = note("moved", dest_path, logged)]

RECURSIVE FolderPhase(_, _, _)
FolderPhase(rs, frs, P) ==
    IF frs = <<>> THEN rs ELSE FolderPhase(FolderStep(rs, Head(frs), P), Tail(frs), P)

\* a file phase that gives up at the first failed move
RECURSIVE FilePhaseAborting(_, _, _)
FilePhaseAborting(rs, rsl, P) ==
    IF rsl = <<>> \/ rs.errors > 0 THEN rs
    ELSE FilePhaseAborting(FileStep(rs, Head(rsl), P), Tail(rsl), P)

RECURSIVE FilePhase(_, _, _)
FilePhase(rs, rsl, P) ==
    IF rsl = <<>> THEN rs ELSE FilePhase(FileStep(rs, Head(rsl), P), Tail(rsl), P)

\* the state of a run before its first item
RunStart ==
    [fs |-> fs, ledger |-> ledger, disk |-> disk, saves |-> saves, gh |-> gh,
     existing |-> ExistingFolders(fs), decisions |-> EmptyFn, asked |-> <<>>,
     move_counts |-> EmptyFn, skipped |-> 0, errors |-> 0, folders_moved |-> 0,
     plan |-> <<>>]

\* an execute_moves that takes every run for a real one
execute_moves_for_real(P) ==
    FilePhase(FolderPhase(RunStart, folder_results, [P EXCEPT !.dry_run = FALSE]),
              results, [P EXCEPT !.dry_run = FALSE])

\* an execute_moves that runs the file phase first
execute_moves_files_first(P) == FolderPhase(FilePhase(RunStart, results, P), folder_results, P)

execute_moves(P) == FilePhase(FolderPhase(RunStart, folder_results, P), results, P)

\* the folder names a run may ask the user about
PromptNames ==
    {Lower(Basename(folder_results[i].recommended_destination)) : i \in 1..Len(folder_results)}
    \cup {Lower(Basename(results[i].recommended_destination)) : i \in 1..Len(results)}
    \cup {results[i].detected_subfolder : i \in 1..Len(results)}
    \cup {results[i].vision_label : i \in 1..Len(results)}
    \cup {"misc"}

MiscThresholds == {0, 50}

\* min_confidence is an argument execute_moves never reads
Exec(dry_run, min_confidence, misc_threshold, existing_only, interactive, accept) ==
    /\ ops < limit
    /\ \E rs \in {execute_moves([dry_run |-> dry_run, misc_threshold |-> misc_threshold,
                                  existing_only |-> existing_only,
                                  interactive |-> interactive,
                                  accept |-> accept, run |-> ops + 1])} :
          /\ fs' = rs.fs
          /\ ledger' = rs.ledger
          /\ disk' = rs.disk
          /\ saves' = rs.saves
          /\ gh' = rs.gh
          /\ last' = [op |-> "exec", dry_run |-> dry_run, min_confidence |-> min_confidence,
                      misc_threshold |-> misc_threshold,
                      existing_only |-> existing_only, interactive |-> interactive,
                      ret |-> rs.move_counts, skipped |-> rs.skipped, errors |-> rs.errors,
                      asked |-> rs.asked, decisions |-> rs.decisions, plan |-> rs.plan,
                      before |-> Len(ledger), topBefore |-> Children(fs, DST)]
    /\ ops' = ops + 1
    /\ UNCHANGED <<cache, results, folder_results, session_id, use_vision, default_category, nextSid,
                   tampered, acache, limit>>

-----------------------------------------------------------------------------
(* undo_last_session.                                                      *)

\* a restore loop that gives up at the first missing destination
UndoStepStopping(us, i) ==
    LET source == ledger[i].source
        dest == ledger[i].destination
        mk == MakeDirs(us.fs, Dirname(source))
        mv == ShutilMove(mk.fs, dest, source)
    IN IF us.missing # {} THEN us
       ELSE IF ~Exists(us.fs, dest) THEN [us EXCEPT !.missing = @ \cup {i}]
       ELSE IF ~mk.ok THEN [us EXCEPT !.failed = @ \cup {i}]
       ELSE IF ~mv.ok THEN [us EXCEPT !.fs = mk.fs, !.failed = @ \cup {i}]
       ELSE [us EXCEPT !.fs = mv.fs, !.restored = @ + 1, !.done = @ \cup {i}]

\* one iteration of the restore loop, on the entry at index i
UndoStep(us, i) ==
    LET source == ledger[i].source
        dest == ledger[i].destination
        mk == MakeDirs(us.fs, Dirname(source))
        mv == ShutilMove(mk.fs, dest, source)
    IN IF ~Exists(us.fs, dest) THEN [us EXCEPT !.missing = @ \cup {i}]
       ELSE IF ~mk.ok THEN [us EXCEPT !.failed = @ \cup {i}]
       ELSE IF ~mv.ok THEN [us EXCEPT !.fs = mk.fs, !.failed = @ \cup {i}]
       ELSE [us EXCEPT !.fs = mv.fs, !.restored = @ + 1, !.done = @ \cup {i}]

RECURSIVE UndoLoop(_, _)
UndoLoop(us, moves) ==
    IF moves = {} THEN us
    ELSE LET i == CHOOSE m \in moves : \A n \in moves : m <= n
         IN UndoLoop(UndoStep(us, i), moves \ {i})

undo_last_session ==
    LET last_session == get_last_session(ledger)
        moves == get_session_moves(ledger, last_session)
        us == UndoLoop([fs |-> fs, restored |-> 0, done |-> {}, missing |-> {},
                        failed |-> {}], moves)
    IN IF last_session = 0
       THEN [fs |-> fs, ledger |-> ledger, disk |-> disk, saves |-> saves, ret |-> 0,
             session |-> 0, moves |-> {}, done |-> {}, missing |-> {}, failed |-> {}]
       ELSE [fs |-> us.fs, ledger |-> mark_undone(ledger, last_session),
             disk |-> mark_undone(ledger, last_session), saves |-> saves + 1,
             ret |-> us.restored,
             session |-> last_session, moves |-> moves, done |-> us.done,
             missing |-> us.missing, failed |-> us.failed]

Undo ==
    /\ ops < limit
    /\ \E u \in {undo_last_session} :
          /\ fs' = u.fs
          /\ ledger' = u.ledger
          /\ disk' = u.disk
          /\ saves' = u.saves
          /\ last' = [op |-> "undo", ret |-> u.ret, session |-> u.session,
                      moves |-> u.moves, done |-> u.done, missing |-> u.missing,
                      failed |-> u.failed,
                      after |-> IF last.op = "exec" THEN ~last.dry_run ELSE FALSE]
    /\ ops' = ops + 1
    /\ UNCHANGED <<cache, results, folder_results, session_id, use_vision, default_category, gh, nextSid,
                   tampered, acache, limit>>

-----------------------------------------------------------------------------
(* discover_existing_folders.                                              *)

category_folders == {Lower(Basename(Registry[c])) : c \in DOMAIN Registry}

RelPath(p) == SubSeq(p, Len(DST) + 1, Len(p))

RECURSIVE walk_folders(_, _, _, _, _, _)
RECURSIVE WalkItems(_, _, _, _, _, _)
\* the body of the for loop of walk_folders, over the listing of one directory
WalkItems(f, items, depth, max_depth, rev, discovered) ==
    IF items = <<>> THEN discovered
    ELSE LET item == Head(items)
             name == Lower(Basename(item))
             found == IF name \in category_folders /\ name \notin DOMAIN discovered
                      THEN discovered @@ (name :> RelPath(item))
                      ELSE discovered
         IN IF IsDir(f, item) /\ ~IsHiddenName(Basename(item))
            THEN WalkItems(f, Tail(items), depth, max_depth, rev,
                           walk_folders(f, item, depth + 1, max_depth, rev, found))
            ELSE WalkItems(f, Tail(items), depth, max_depth, rev, discovered)

walk_folders(f, path, depth, max_depth, rev, discovered) ==
    IF depth > max_depth THEN discovered
    ELSE WalkItems(f, ListDir(f, path, rev), depth, max_depth, rev, discovered)

discover_existing_folders(f, max_depth, rev) ==
    IF ~Exists(f, DST) THEN EmptyFn
    ELSE walk_folders(f, DST, 0, max_depth, rev, EmptyFn)

DefaultMaxDepth == 3

Discover(max_depth, rev) ==
    /\ ops < limit
    /\ cache' = discover_existing_folders(fs, max_depth, rev)
    /\ last' = [op |-> "discover", max_depth |-> max_depth]
    /\ ops' = ops + 1
    /\ UNCHANGED <<fs, results, folder_results, session_id, use_vision, default_category, ledger, disk, gh,
                   nextSid, tampered, acache, limit, saves>>

-----------------------------------------------------------------------------
(* A new engine (SortSense.__init__): a fresh session id, the ledger read  *)
(* from its file, nothing analysed, nothing discovered.                    *)

UseVisionChoices == {FALSE}

NewEngine(vision) ==
    /\ ops < limit
    /\ nextSid < MaxSessions
    /\ nextSid' = nextSid + 1
    /\ session_id' = nextSid + 1
    /\ use_vision' = vision
    /\ ledger' = disk
    /\ results' = <<>>
    /\ folder_results' = <<>>
    /\ cache' = EmptyFn
    /\ acache' = EmptyFn
    /\ last' = [op |-> "new"]
    /\ ops' = ops + 1
    /\ UNCHANGED <<fs, disk, gh, tampered, limit, saves, default_category>>

-----------------------------------------------------------------------------
(* The user, between two operations: removes an item the engine had moved  *)
(* into the destination.                                                   *)

Tamper(i) ==
    /\ ops < limit
    /\ tampered < MaxTamper
    /\ i \in 1..Len(ledger)
    /\ ~ledger[i].undone
    /\ Exists(fs, ledger[i].destination)
    /\ fs' = [q \in DOMAIN fs \ Under(fs, ledger[i].destination) |-> fs[q]]
    /\ tampered' = tampered + 1
    /\ last' = [op |-> "tamper"]
    /\ ops' = ops + 1
    /\ UNCHANGED <<cache, results, folder_results, session_id, use_vision, default_category, ledger, disk,
                   gh, nextSid, acache, limit, saves>>

-----------------------------------------------------------------------------
(* The initial states: a source folder holding some of: a report, a folder *)
(* "Old Tax" with a report and a note; a destination that may already hold *)
(* category folders, reports of the same name and a folder of the same     *)
(* name; and a ledger that is empty or holds the move of an earlier        *)
(* session.                                                                *)

File(id) == [kind |-> "file", id |-> id]
Dir(id) == [kind |-> "dir", id |-> id]

Roots == (SRC :> Dir("src")) @@ (DST :> Dir("dst"))

SrcReport == {EmptyFn, (SRC \o <<"report.pdf">>) :> File("r1")}

SrcFolderDir == (SRC \o <<"Old Tax">>) :> Dir("F")
SrcFolderReport == (SRC \o <<"Old Tax", "report.pdf">>) :> File("r2")
SrcFolderNote == (SRC \o <<"Old Tax", "y.txt">>) :> File("y")

DstDocumentsDir == (DST \o <<"documents">>) :> Dir("o0")
DstReport == (DST \o <<"documents", "report.pdf">>) :> File("o1")
DstReport1 == (DST \o <<"documents", "report_1.pdf">>) :> File("o2")
DstSubfolder ==
    ((DST \o <<"documents", "old-tax">>) :> Dir("o3"))
    @@ ((DST \o <<"documents", "old-tax", "Old Tax">>) :> Dir("o4"))

DstDocuments ==
    {EmptyFn, DstDocumentsDir, DstDocumentsDir @@ DstReport,
     DstDocumentsDir @@ DstReport @@ DstReport1, DstDocumentsDir @@ DstSubfolder}

DstHousing ==
    {((DST \o <<"personal">>) :> Dir("o5")) @@ ((DST \o <<"personal", "housing">>) :> Dir("o6")),
     (DST \o <<"Housing">>) :> Dir("o7")}

\* reports and folders meeting what the destination already holds
CollisionFileSystems ==
    {Roots @@ a @@ b @@ e :
        a \in SrcReport,
        b \in {EmptyFn, SrcFolderDir @@ SrcFolderReport,
               SrcFolderDir @@ SrcFolderReport @@ SrcFolderNote},
        e \in DstDocuments}

\* a housing note meeting a housing folder that is nested, or spelt otherwise
NestedFileSystems ==
    {Roots @@ SrcFolderDir @@ b @@ e @@ g :
        b \in {SrcFolderNote, SrcFolderReport @@ SrcFolderNote},
        e \in {EmptyFn, DstDocumentsDir},
        g \in DstHousing}

InitialFileSystems == CollisionFileSystems \cup NestedFileSystems

\* the move an earlier session (session 1) made and logged
PriorEntry == Entry(SRC \o <<"report.pdf">>, DST \o <<"documents", "report.pdf">>, "documents", 1)

InitEngine ==
    /\ cache = EmptyFn
    /\ acache = EmptyFn
    /\ results = <<>>
    /\ folder_results = <<>>
    /\ use_vision \in UseVisionChoices
    /\ default_category = "unsorted"
    /\ last = [op |-> "init"]
    /\ ops = 0
    /\ tampered = 0
    /\ saves = 0

InitLedger ==
    /\ \/ ledger = <<>> /\ gh = <<>>
       \/ /\ IsFile(fs, PriorEntry.destination)
          /\ fs[PriorEntry.destination].id = "o1"
          /\ ledger = <<PriorEntry>>
          /\ gh = <<[id |-> "o1", kind |-> "file", run |-> 0]>>
    /\ disk = ledger
    /\ session_id = Len(ledger) + 1
    /\ nextSid = Len(ledger) + 1

Init ==
    /\ fs \in InitialFileSystems
    /\ InitEngine
    /\ InitLedger
    /\ limit = MaxOps

Next ==
    \/ \E recursive \in BOOLEAN, max_files \in MaxFilesChoices, rev \in BOOLEAN :
          Analyze(recursive, max_files, rev)
    \/ \E dry_run \in BOOLEAN, misc_threshold \in MiscThresholds, existing_only \in BOOLEAN :
          Exec(dry_run, 0, misc_threshold, existing_only, FALSE, {})
    \/ Undo
    \/ \E rev \in BOOLEAN : Discover(DefaultMaxDepth, rev)
    \/ \E vision \in UseVisionChoices : NewEngine(vision)
    \/ \E i \in 1..Len(ledger) : Tamper(i)

Spec == Init /\ [][Next]_vars

-----------------------------------------------------------------------------
(* Sessions and their undo: real runs only (no dry run, no misc threshold) *)
(* over fewer file systems, and longer behaviours.                         *)

RoundFileSystems ==
    {Roots @@ a @@ SrcFolderDir @@ SrcFolderReport @@ b @@ e :
        a \in SrcReport,
        b \in {EmptyFn, SrcFolderNote},
        e \in {EmptyFn, DstDocumentsDir, DstDocumentsDir @@ DstReport}}

InitRound ==
    /\ fs \in RoundFileSystems
    /\ InitEngine
    /\ InitLedger
    /\ limit = MaxOpsRound

NextRound ==
    \/ \E recursive \in BOOLEAN, max_files \in MaxFilesChoices, rev \in BOOLEAN :
          Analyze(recursive, max_files, rev)
    \/ \E existing_only \in BOOLEAN : Exec(FALSE, 0, 0, existing_only, FALSE, {})
    \/ Undo
    \/ \E vision \in UseVisionChoices : NewEngine(vision)
    \/ \E i \in 1..Len(ledger) : Tamper(i)

SpecRound == InitRound /\ [][NextRound]_vars

-----------------------------------------------------------------------------
(* Folder discovery alone, over destination trees where one leaf name      *)
(* occurs at several depths, with every depth limit up to the default.     *)

MaxOpsDiscover == 2

\* the directories a destination tree may hold, relative to the destination
DiscoverDirs ==
    {<<"a">>, <<"a", "b">>, <<"a", "b", "housing">>, <<"a", "b", "documents">>,
     <<"a", "documents">>, <<"personal">>, <<"personal", "housing">>,
     <<"personal", "misc">>, <<"housing">>}

\* the trees: every set of those directories that holds the parent of each member
DiscoverFileSystems ==
    {Roots @@ [p \in {DST \o d : d \in D} |-> Dir("o0")] :
        D \in {E \in SUBSET DiscoverDirs :
                 \A d \in E : Len(d) > 1 => SubSeq(d, 1, Len(d) - 1) \in E}}

MaxDepthChoices == 0..DefaultMaxDepth

InitDiscover ==
    /\ fs \in DiscoverFileSystems
    /\ InitEngine
    /\ ledger = <<>>
    /\ gh = <<>>
    /\ disk = <<>>
    /\ session_id = 1
    /\ nextSid = 1
    /\ limit = MaxOpsDiscover

NextDiscover ==
    \E max_depth \in MaxDepthChoices, rev \in BOOLEAN : Discover(max_depth, rev)

SpecDiscover == InitDiscover /\ [][NextDiscover]_vars

-----------------------------------------------------------------------------
(* One analysis and one run with every argument of execute_moves free,     *)
(* interactive runs and their answers included.                            *)

MaxOpsAsk == 2

SrcUnsorted == (SRC \o <<"n.txt">>) :> File("n")

\* a housing note in a folder named Old Tax below a folder without files
SrcDeepNote ==
    ((SRC \o <<"b">>) :> Dir("B"))
    @@ ((SRC \o <<"b", "Old Tax">>) :> Dir("G"))
    @@ ((SRC \o <<"b", "Old Tax", "y.txt">>) :> File("y"))

AskFileSystems ==
    {Roots @@ a @@ n @@ b @@ e :
        a \in SrcReport,
        n \in {EmptyFn, SrcUnsorted},
        b \in {EmptyFn, SrcFolderDir @@ SrcFolderReport,
               SrcFolderDir @@ SrcFolderReport @@ SrcFolderNote,
               SrcFolderDir @@ SrcFolderReport @@ SrcDeepNote},
        e \in {EmptyFn, DstDocumentsDir @@ DstReport}}

MinConfidences == {0, 3}

\* the answers of the user: the folder names they say yes to
Answers == SUBSET (PromptNames \ {""})

InitAsk ==
    /\ fs \in AskFileSystems
    /\ InitEngine
    /\ ledger = <<>>
    /\ gh = <<>>
    /\ disk = <<>>
    /\ session_id = 1
    /\ nextSid = 1
    /\ limit = MaxOpsAsk

NextAsk ==
    \/ \E max_files \in MaxFilesChoices, rev \in BOOLEAN : Analyze(TRUE, max_files, rev)
    \/ \E dry_run \in BOOLEAN, min_confidence \in MinConfidences,
          misc_threshold \in MiscThresholds, existing_only \in BOOLEAN :
          \/ Exec(dry_run, min_confidence, misc_threshold, existing_only, FALSE, {})
          \/ \E accept \in Answers :
                Exec(dry_run, min_confidence, misc_threshold, existing_only, TRUE, accept)

SpecAsk == InitAsk /\ [][NextAsk]_vars

-----------------------------------------------------------------------------
(* A run that is cut short: the process dies while execute_moves is at its *)
(* item n, either between shutil.move and log_move or after log_move has   *)
(* written the file. What is in memory is lost; the next engine starts     *)
(* from the ledger file.                                                   *)

MaxOpsCrash == 4

\* the run when its first n items are done, folder results first
RunPrefix(P, n) ==
    IF n <= Len(folder_results)
    THEN FolderPhase(RunStart, SubSeq(folder_results, 1, n), P)
    ELSE FilePhase(FolderPhase(RunStart, folder_results, P),
                   SubSeq(results, 1, n - Len(folder_results)), P)

\* the items a run has moved, with where they were and where they are
MovedBy(rs) ==
    {[src |-> rs.plan[k].src, dest |-> rs.plan[k].dest_path] :
        k \in {j \in 1..Len(rs.plan) : rs.plan[j].what = "moved"}}

CrashPoints == {"moved", "logged"}

Crash(existing_only, n, point) ==
    /\ ops < limit
    /\ nextSid < MaxSessions
    /\ n \in 1..(Len(folder_results) + Len(results))
    /\ \E P \in {[dry_run |-> FALSE, misc_threshold |-> 0, existing_only |-> existing_only,
                   interactive |-> FALSE, accept |-> {}, run |-> ops + 1]} :
       \E before \in {RunPrefix(P, n - 1)} :
       \E after \in {RunPrefix(P, n)} :
       \E kept \in {IF point = "logged" THEN after ELSE before} :
          /\ fs' = after.fs
          /\ disk' = kept.disk
          /\ saves' = kept.saves
          /\ gh' = kept.gh
          /\ ledger' = kept.disk
          /\ last' = [op |-> "crash", point |-> point, session |-> session_id,
                      moved |-> MovedBy(after)]
    /\ nextSid' = nextSid + 1
    /\ session_id' = nextSid + 1
    /\ results' = <<>>
    /\ folder_results' = <<>>
    /\ cache' = EmptyFn
    /\ acache' = EmptyFn
    /\ ops' = ops + 1
    /\ UNCHANGED <<use_vision, default_category, tampered, limit>>

InitCrash ==
    /\ fs \in RoundFileSystems
    /\ InitEngine
    /\ InitLedger
    /\ limit = MaxOpsCrash

NextCrash ==
    \/ \E recursive \in BOOLEAN, max_files \in MaxFilesChoices, rev \in BOOLEAN :
          Analyze(recursive, max_files, rev)
    \/ \E existing_only \in BOOLEAN : Exec(FALSE, 0, 0, existing_only, FALSE, {})
    \/ \E existing_only \in BOOLEAN, n \in 1..(Len(folder_results) + Len(results)),
          point \in CrashPoints : Crash(existing_only, n, point)
    \/ Undo

SpecCrash == InitCrash /\ [][NextCrash]_vars

-----------------------------------------------------------------------------
(* The cohesion of one folder: downloads/Mix holds up to five files, each  *)
(* of one of three categories or of none, and the configured default       *)
(* category is the shipped one or a custom one.                            *)

MaxOpsCohesion == 1

MixPath == SRC \o <<"Mix">>

SampleLetters == {"A", "B", "C", "D"}

DefaultCategoryChoices == {"unsorted", "other"}

\* the folder with the files f1.txt .. fk.txt of the given letters
MixFolder(letters) ==
    (MixPath :> Dir("M"))
    @@ [q \in {MixPath \o <<"f" \o ToString(i) \o ".txt">> : i \in DOMAIN letters} |->
          File(letters[CHOOSE i \in DOMAIN letters :
                          q = MixPath \o <<"f" \o ToString(i) \o ".txt">>]
                 \o ToString(CHOOSE i \in DOMAIN letters :
                                 q = MixPath \o <<"f" \o ToString(i) \o ".txt">>))]

CohesionFileSystems ==
    {Roots @@ MixFolder(letters) :
        letters \in UNION {[1..k -> SampleLetters] : k \in 0..MaxSample}}

InitCohesion ==
    /\ fs \in CohesionFileSystems
    /\ cache = EmptyFn
    /\ acache = EmptyFn
    /\ results = <<>>
    /\ folder_results = <<>>
    /\ use_vision = FALSE
    /\ default_category \in DefaultCategoryChoices
    /\ last = [op |-> "init"]
    /\ ops = 0
    /\ tampered = 0
    /\ saves = 0
    /\ ledger = <<>> /\ gh = <<>> /\ disk = <<>>
    /\ session_id = 1 /\ nextSid = 1
    /\ limit = MaxOpsCohesion

NextCohesion == \E rev \in BOOLEAN : Analyze(FALSE, 0, rev)

SpecCohesion == InitCohesion /\ [][NextCohesion]_vars

-----------------------------------------------------------------------------
(* A source folder that holds a directory of a dependency, cache or        *)
(* version-control name, with files in it.                                 *)

MaxOpsDeny == 2

DenyNames == {"node_modules", "__pycache__", ".git", "venv", "env", "Venv"}

\* the directory named d with a report in it and, if asked for, a note
DenyFolder(d, note) ==
    ((SRC \o <<d>>) :> Dir("V"))
    @@ ((SRC \o <<d, "report.pdf">>) :> File("r2"))
    @@ (IF note THEN (SRC \o <<d, "y.txt">>) :> File("y") ELSE EmptyFn)

DenyFileSystems ==
    {Roots @@ DenyFolder(d, note) @@ a @@ e :
        d \in DenyNames,
        note \in BOOLEAN,
        a \in SrcReport,
        e \in {EmptyFn, DstDocumentsDir}}

InitDeny ==
    /\ fs \in DenyFileSystems
    /\ InitEngine
    /\ ledger = <<>> /\ gh = <<>> /\ disk = <<>>
    /\ session_id = 1 /\ nextSid = 1
    /\ limit = MaxOpsDeny

NextDeny ==
    \/ \E recursive \in BOOLEAN, rev \in BOOLEAN : Analyze(recursive, 0, rev)
    \/ \E existing_only \in BOOLEAN : Exec(FALSE, 0, 0, existing_only, FALSE, {})

SpecDeny == InitDeny /\ [][NextDeny]_vars

-----------------------------------------------------------------------------
(* Categorizer.categorize, on texts spelt out letter by letter: a text, a  *)
(* file name and a keyword are sequences of characters.                    *)

MaxOpsCategorize == 1
MaxTextLen == 3
MaxNameLen == 1

Letters == {"a", "b", "A", "B"}

\* str.lower() on one character
LowerChar(c) == CASE c = "A" -> "a" [] c = "B" -> "b" [] OTHER -> c

\* a lower() that leaves the text as it is
LowerTextNot(t) == t

\* str.lower() on a text
LowerText(t) == [i \in 1..Len(t) |-> LowerChar(t[i])]

\* needle in hay
Contains(hay, needle) ==
    \E i \in 0..(Len(hay) - Len(needle)) : SubSeq(hay, i + 1, i + Len(needle)) = needle

\* self.categories, in the order of the dictionary: name and keywords
Categories ==
    <<[name |-> "finance", keywords |-> << <<"a", "b">>, <<"B">> >>],
      [name |-> "career", keywords |-> << <<"b", "a">>, <<"a">>, <<"a", " ", "b">> >>],
      [name |-> "photos", keywords |-> << <<"A">>, <<"b", "b">> >>],
      [name |-> "misc", keywords |-> << >>]>>

\* Categorizer.categorize
categorize(text, filename) ==
    LET combined == LowerText(text \o <<" ">> \o filename)
        matched(c) == SelectSeq(Categories[c].keywords,
                                LAMBDA keyword : Contains(combined, LowerText(keyword)))
        scores == [c \in 1..Len(Categories) |-> Len(matched(c))]
        max_score == IF Len(Categories) = 0 THEN 0
                     ELSE CHOOSE m \in Range(scores) : \A n \in Range(scores) : n <= m
        first == CHOOSE c \in 1..Len(Categories) :
                    scores[c] = max_score /\ \A d \in 1..(c - 1) : scores[d] # max_score
    IN IF max_score > 0
       THEN [category |-> Categories[first].name, score |-> scores[first],
             matches |-> matched(first)]
       ELSE [category |-> default_category, score |-> 0, matches |-> <<>>]

Texts(n) == UNION {[1..k -> Letters] : k \in 0..n}

Categorize ==
    /\ ops < limit
    /\ last.op = "init"
    /\ last' = [op |-> "categorize", text |-> last.text, filename |-> last.filename,
                ret |-> categorize(last.text, last.filename)]
    /\ ops' = ops + 1
    /\ UNCHANGED <<fs, cache, results, folder_results, session_id, use_vision,
                   default_category, ledger, disk, gh, nextSid, tampered, acache, limit,
                   saves>>

InitCategorize ==
    /\ fs = Roots
    /\ cache = EmptyFn
    /\ acache = EmptyFn
    /\ results = <<>>
    /\ folder_results = <<>>
    /\ use_vision = FALSE
    /\ default_category \in DefaultCategoryChoices
    /\ \E text \in Texts(MaxTextLen), filename \in Texts(MaxNameLen) :
          last = [op |-> "init", text |-> text, filename |-> filename]
    /\ ops = 0
    /\ tampered = 0
    /\ saves = 0
    /\ ledger = <<>> /\ gh = <<>> /\ disk = <<>>
    /\ session_id = 1 /\ nextSid = 1
    /\ limit = MaxOpsCategorize

NextCategorize == Categorize

SpecCategorize == InitCategorize /\ [][NextCategorize]_vars

-----------------------------------------------------------------------------
(* A source folder that holds the folder GTFS, cohesive by its name, and   *)
(* next to it a folder of mixed files whose name may begin with "GTFS".    *)

MaxOpsPrefix == 2

NeighbourNames == {"GTFS-notes", "Old Tax"}

\* the directory GTFS with one file in it
GtfsFolder ==
    ((SRC \o <<"GTFS">>) :> Dir("G")) @@ ((SRC \o <<"GTFS", "n.txt">>) :> File("n"))

\* the directory named d with a report and a note, or one of the two, in it
Neighbour(d, report, note) ==
    ((SRC \o <<d>>) :> Dir("F"))
    @@ (IF report THEN (SRC \o <<d, "report.pdf">>) :> File("r2") ELSE EmptyFn)
    @@ (IF note THEN (SRC \o <<d, "y.txt">>) :> File("y") ELSE EmptyFn)

PrefixFileSystems ==
    {Roots @@ g @@ Neighbour(d, report, note) @@ a @@ e :
        g \in {EmptyFn, GtfsFolder},
        d \in NeighbourNames,
        report \in BOOLEAN,
        note \in BOOLEAN,
        a \in SrcReport,
        e \in {EmptyFn, DstDocumentsDir}}

InitPrefix ==
    /\ fs \in PrefixFileSystems
    /\ InitEngine
    /\ ledger = <<>> /\ gh = <<>> /\ disk = <<>>
    /\ session_id = 1 /\ nextSid = 1
    /\ limit = MaxOpsPrefix

NextPrefix ==
    \/ \E recursive \in BOOLEAN, rev \in BOOLEAN : Analyze(recursive, 0, rev)
    \/ \E existing_only \in BOOLEAN : Exec(FALSE, 0, 0, existing_only, FALSE, {})

SpecPrefix == InitPrefix /\ [][NextPrefix]_vars

-----------------------------------------------------------------------------
(* The claims.                                                             *)

\* the item the entry at index i moved is at the entry's source path again
BackAtSource(i) ==
    /\ Exists(fs, ledger[i].source)
    /\ fs[ledger[i].source].id = gh[i].id

\* C1: round trip.  After a real execute_moves followed at once by
\* undo_last_session, with nothing outside the engine having touched the
\* disk, every item the undone session had moved is back at the source path
\* of its ledger entry.
C1_RoundTrip ==
    (last.op = "undo" /\ last.after /\ tampered = 0)
        => \A i \in last.moves : BackAtSource(i)

-----------------------------------------------------------------------------
(* C2, C3, C4: what undo_last_session touches.                             *)

UndoStepTaken == ops' = ops + 1 /\ last'.op = "undo"

\* the newest entry that is not undone, 0 when there is none
NewestLive == 
    LET live == {i \in 1..Len(ledger) : ~ledger[i].undone}
    IN IF live = {} THEN 0 ELSE CHOOSE i \in live : \A j \in live : j <= i

\* the entries one undo is about: the live entries of the newest live entry's session
Targeted ==
    IF NewestLive = 0 THEN {}
    ELSE {i \in 1..Len(ledger) :
            ~ledger[i].undone /\ ledger[i].session_id = ledger[NewestLive].session_id}

AtDestination(f, i) ==
    /\ Exists(f, ledger[i].destination)
    /\ f[ledger[i].destination].id = gh[i].id

\* C2: an undo processes and flags exactly the live entries of the most recent
\* session that has one; an entry of any other session keeps its flag, and the
\* item a live entry of another session moved stays at its destination.
C2_UndoScope ==
    [][UndoStepTaken =>
          /\ last'.moves = Targeted
          /\ Len(ledger') = Len(ledger)
          /\ \A i \in 1..Len(ledger) :
                /\ ledger'[i].undone = (ledger[i].undone \/ i \in Targeted)
                /\ (i \notin Targeted /\ ~ledger[i].undone /\ AtDestination(fs, i))
                      => AtDestination(fs', i)]_vars

\* an undo of one session has run while an entry of another session is live
C2_Witness ==
    /\ last.op = "undo"
    /\ last.done # {}
    /\ \E j \in 1..Len(ledger) :
          /\ ledger[j].session_id # last.session
          /\ ~ledger[j].undone
          /\ AtDestination(fs, j)

\* C3: an undo goes through every entry of the session whatever it finds: each
\* one is restored, found missing or failed, all of them end up undone, and the
\* number returned is the number restored.
C3_UndoContinues ==
    (last.op = "undo" /\ last.session # 0) =>
        /\ last.moves = last.done \cup last.missing \cup last.failed
        /\ \A i \in 1..Len(ledger) :
              ledger[i].session_id = last.session => ledger[i].undone
        /\ last.ret = Cardinality(last.done)
        /\ \A i \in last.done : ~AtDestination(fs, i)

\* an entry processed after a missing one was restored
C3_Witness ==
    /\ last.op = "undo"
    /\ \E i \in last.missing, j \in last.done : i < j /\ BackAtSource(j)
    /\ last.ret < Cardinality(last.moves)

\* C4: an undo that finds no live entry returns 0 and changes neither the file
\* system nor the ledger, in memory or on disk.
C4_UndoNothing ==
    [][(UndoStepTaken /\ \A i \in 1..Len(ledger) : ledger[i].undone) =>
          /\ last'.ret = 0
          /\ fs' = fs
          /\ ledger' = ledger
          /\ disk' = disk
          /\ saves' = saves]_vars

\* an undo has run on a ledger whose entries were all undone already
C4_Witness ==
    /\ last.op = "undo"
    /\ last.session = 0
    /\ last.ret = 0
    /\ ledger # <<>>
    /\ \A i \in 1..Len(ledger) : ledger[i].undone

-----------------------------------------------------------------------------
(* C5: the order of a session's entries.                                   *)

-----------------------------------------------------------------------------
(* C6: collisions at the destination.                                      *)

MaxSuffix == 3

ExecStepTaken == ops' = ops + 1 /\ last'.op = "exec" /\ ~last'.dry_run

\* the entries the step appends
Appended == (Len(ledger) + 1)..Len(ledger')

\* the N-th name tried for the item of entry k: the literal one for N = 0
Candidate(k, N) ==
    LET name == Basename(ledger'[k].source)
        dir == Dirname(ledger'[k].destination)
    IN IF N = 0 THEN dir \o <<name>>
       ELSE IF gh'[k].kind = "folder" THEN dir \o <<name \o "_" \o ToString(N)>>
       ELSE dir \o <<SplitExt(name)[1] \o "_" \o ToString(N) \o SplitExt(name)[2]>>

\* path p was taken when the move of entry k was made
Occupied(p, k) ==
    \/ p \in DOMAIN fs
    \/ \E j \in Appended : j < k /\ ledger'[j].destination = p

\* C6: a move goes to the literal path when it is free and otherwise to the
\* name with the smallest suffix N >= 1 that is free; its target is free when
\* it is made, and nothing that was in the destination tree is replaced.
C6_Collision ==
    [][ExecStepTaken =>
          /\ \A k \in Appended :
                /\ \E N \in 0..MaxSuffix :
                      /\ ledger'[k].destination = Candidate(k, N)
                      /\ \A M \in 0..(N - 1) : Occupied(Candidate(k, M), k)
                /\ ~Occupied(ledger'[k].destination, k)
                /\ Exists(fs', ledger'[k].destination)
                /\ fs'[ledger'[k].destination].id = gh'[k].id
          /\ \A p \in DOMAIN fs :
                IsPrefix(DST, p) => (p \in DOMAIN fs' /\ fs'[p] = fs[p])]_vars

\* a file that met report.pdf and report_1.pdf went to report_2.pdf
C6_Witness ==
    /\ last.op = "exec"
    /\ \E k \in (last.before + 1)..Len(ledger) :
          /\ Basename(ledger[k].source) = "report.pdf"
          /\ Basename(ledger[k].destination) = "report_2.pdf"
          /\ Exists(fs, Dirname(ledger[k].destination) \o <<"report.pdf">>)
          /\ Exists(fs, Dirname(ledger[k].destination) \o <<"report_1.pdf">>)

-----------------------------------------------------------------------------
(* C7, C8: where the file phase sends a file.                              *)

\* the confidence in hundredths when a score on the 0-5 scale is divided by 5
FifthsNormalized(c) == IF c.isInt THEN c.val * 20 ELSE c.val

RealRun == last.op = "exec" /\ ~last.dry_run

\* the file-phase items of the last run, each with the record it came from
FileItems ==
    {<<k, r>> \in (1..Len(last.plan)) \X (1..Len(results)) :
        last.plan[k].phase = "file" /\ last.plan[k].src = results[r].filepath}

\* C7: in a run with a nonzero misc threshold every file whose normalized
\* confidence is below the threshold is resolved to the category misc and to
\* the catch-all folder.
C7_BelowThreshold ==
    (RealRun /\ last.misc_threshold > 0) =>
        \A it \in FileItems :
            FifthsNormalized(results[it[2]].confidence_score) < last.misc_threshold
                => /\ last.plan[it[1]].category = "misc"
                   /\ last.plan[it[1]].dest_folder = misc_folder

\* the folder the claim names for a category: the entry the cache held for the
\* registry folder's leaf name when the file was analysed, else the registry folder
CacheOrRegistry(category) ==
    LET leaf == Lower(Basename(Registry[category]))
    IN IF leaf \in DOMAIN acache THEN acache[leaf] ELSE Registry[category]

\* the files C8 is about: moved by the last run, confidence above the
\* threshold, category not the default
Routed ==
    {it \in FileItems :
        /\ last.plan[it[1]].what = "moved"
        /\ FifthsNormalized(results[it[2]].confidence_score) > last.misc_threshold
        /\ results[it[2]].category # default_category}

\* C8 as stated: such a file is moved into the destination root joined with
\* the cache entry of its category, or with the registry folder.
C8_CategoryFolder ==
    RealRun =>
        \A it \in Routed :
            last.plan[it[1]].dest_folder = DST \o CacheOrRegistry(results[it[2]].category)

\* C8, amended: such a file is moved into that directory, or into the child of
\* it named by the file's detected subfolder; the child is used only if it is
\* there, and always if it was there before the run.
C8_CategoryOrSubfolder ==
    [][ExecStepTaken =>
          \A k \in 1..Len(last'.plan), r \in 1..Len(results) :
              (/\ last'.plan[k].phase = "file"
               /\ last'.plan[k].what = "moved"
               /\ last'.plan[k].src = results[r].filepath
               /\ FifthsNormalized(results[r].confidence_score) > last'.misc_threshold
               /\ results[r].category # default_category)
              => LET base == DST \o CacheOrRegistry(results[r].category)
                     sub == results[r].detected_subfolder
                     d == last'.plan[k].dest_folder
                 IN /\ Dirname(last'.plan[k].dest_path) = d
                    /\ \/ d = base /\ (sub = "" \/ ~Exists(fs, base \o <<sub>>))
                       \/ d = base \o <<sub>> /\ sub # "" /\ Exists(fs, d)]_vars

\* with the cache entry housing -> personal/housing a housing file went to
\* personal/housing, and no top-level housing appeared
C8_Witness ==
    /\ RealRun
    /\ "housing" \in DOMAIN acache
    /\ acache["housing"] = <<"personal", "housing">>
    /\ \E it \in Routed :
          /\ results[it[2]].category = "housing"
          /\ last.plan[it[1]].dest_folder = DST \o <<"personal", "housing">>
          /\ IsFile(fs, last.plan[it[1]].dest_path)
    /\ ~Exists(fs, DST \o <<"housing">>)

-----------------------------------------------------------------------------
(* C10: existing-only runs.                                                *)

\* C10: after an existing-only run every top-level directory of the
\* destination is one that was there before the run.
C10_NoNewTopLevel ==
    (last.op = "exec" /\ last.existing_only) =>
        \A p \in Children(fs, DST) : IsDir(fs, p) => p \in last.topBefore

-----------------------------------------------------------------------------
(* C9: which directory discovery records for a leaf name.                  *)

\* the directories of the destination tree with leaf name n that lie within
\* the depth limit of the last discovery
Matching(n) ==
    {p \in DOMAIN fs :
        /\ IsDir(fs, p)
        /\ IsPrefix(DST, p) /\ p # DST
        /\ Lower(Basename(p)) = n
        /\ Len(RelPath(p)) <= last.max_depth}

\* C9: the entry recorded for a leaf name has no more path segments than any
\* directory of that name in the tree.
C9_Shallowest ==
    last.op = "discover" =>
        \A n \in DOMAIN cache : \A p \in Matching(n) : Len(cache[n]) <= Len(RelPath(p))

-----------------------------------------------------------------------------
(* C11: what an existing-only run skips.                                   *)

\* some directory of the destination tree of f bears the name leaf
LeafExists(f, leaf) ==
    \E p \in DOMAIN f :
        /\ IsPrefix(DST, p) /\ p # DST
        /\ IsDir(f, p)
        /\ Lower(Basename(p)) = leaf

\* C11: in a non-interactive existing-only run with no misc threshold, a file
\* of a category other than the default is skipped when no directory of the
\* destination tree bears the leaf name of its destination, and is not skipped
\* when its destination directory is there (say a nested one discovery found).
C11_SkipIffLeafMissing ==
    [][(/\ ops' = ops + 1 /\ last'.op = "exec"
        /\ last'.existing_only /\ ~last'.interactive /\ last'.misc_threshold = 0)
       => \A k \in 1..Len(last'.plan), r \in 1..Len(results) :
             (/\ last'.plan[k].phase = "file"
              /\ last'.plan[k].src = results[r].filepath
              /\ results[r].category # default_category)
             => /\ ~LeafExists(fs, Lower(Basename(results[r].recommended_destination)))
                    => last'.plan[k].what = "skipped"
                /\ IsDir(fs, results[r].recommended_destination)
                    => last'.plan[k].what # "skipped"]_vars

-----------------------------------------------------------------------------
(* C12, C13: the questions of an interactive run.                          *)

AskingRun == last.op = "exec" /\ last.interactive /\ ~last.dry_run

\* item k of the last run was dealt with as one whose folder was refused: a
\* folder left where it was, a file sent to <name>-misc beneath <name>
Refused(k) ==
    IF last.plan[k].phase = "folder" THEN last.plan[k].what = "skipped"
    ELSE /\ last.plan[k].category = Basename(Dirname(last.plan[k].dest_folder)) \o "-misc"
         /\ Basename(last.plan[k].dest_folder) = last.plan[k].category

\* C12: in an interactive run no folder name is asked about twice, over both
\* phases; an item proposing a name an earlier item proposed is not asked
\* about, and when that name was refused it is dealt with as refused.
C12_AskedOnce ==
    AskingRun =>
        /\ \A i, j \in 1..Len(last.asked) : i < j => last.asked[i] # last.asked[j]
        /\ \A j, k \in 1..Len(last.plan) :
              (j < k /\ last.plan[k].proposed # ""
                     /\ last.plan[j].proposed = last.plan[k].proposed)
              => /\ ~last.plan[k].prompted
                 /\ ~last.decisions[last.plan[k].proposed] => Refused(k)

\* a name refused for a folder was proposed again by a file, which went to
\* the misc folder without a question
C12_Witness ==
    /\ AskingRun
    /\ \E j, k \in 1..Len(last.plan) :
          /\ j < k
          /\ last.plan[j].phase = "folder" /\ last.plan[j].prompted
          /\ last.plan[k].phase = "file"
          /\ last.plan[k].proposed = last.plan[j].proposed
          /\ ~last.decisions[last.plan[j].proposed]
          /\ last.plan[k].what = "moved"
          /\ Len(last.asked) = 1

\* C13: in an interactive run an item whose proposed folder is refused is not
\* skipped: it is moved to a <category>-misc folder beneath the same parent.
C13_RefusedIsRerouted ==
    AskingRun =>
        \A k \in 1..Len(last.plan) :
            (last.plan[k].proposed # "" /\ ~last.decisions[last.plan[k].proposed])
            => /\ last.plan[k].what # "skipped"
               /\ last.plan[k].category = Basename(Dirname(last.plan[k].dest_folder)) \o "-misc"
               /\ Basename(last.plan[k].dest_folder) = last.plan[k].category

-----------------------------------------------------------------------------
(* C14: the ledger entries of a run.                                       *)

\* the items of the last run that were moved
MovedItems == {k \in 1..Len(last.plan) : last.plan[k].what = "moved"}

\* how many of the first k items of the last run were moved
MovedUpTo(k) == Cardinality({j \in MovedItems : j <= k})

\* C14: a real run appends one entry for each move it made, in the order of
\* the moves, carrying the session id, the source, the final destination and
\* undone = FALSE; the entry is in the ledger file when the item is done, and
\* an item that was skipped or failed adds nothing.
C14_EntryPerMove ==
    RealRun =>
        /\ Len(ledger) = last.before + Cardinality(MovedItems)
        /\ disk = ledger
        /\ \A k \in 1..Len(last.plan) :
              /\ last.plan[k].persisted = last.before + MovedUpTo(k)
              /\ k \in MovedItems =>
                    /\ disk[last.before + MovedUpTo(k)]
                          = [session_id |-> session_id, source |-> last.plan[k].src,
                             destination |-> last.plan[k].dest_path,
                             category |-> last.plan[k].category, undone |-> FALSE]
                    /\ Exists(fs, last.plan[k].dest_path)
                    /\ fs[last.plan[k].dest_path].id = gh[last.before + MovedUpTo(k)].id

\* a run that moved a folder, moved a file under a new name because of a
\* collision, and skipped or failed on another item
C14_Witness ==
    /\ RealRun
    /\ \E i \in 1..Len(last.plan), j, k \in MovedItems :
          /\ last.plan[i].what \in {"error", "skipped"}
          /\ last.plan[j].phase = "file"
          /\ Basename(last.plan[j].dest_path) # Basename(last.plan[j].src)
          /\ last.plan[k].phase = "folder"

-----------------------------------------------------------------------------
(* C15: the ledger only grows.                                             *)

\* entry f is entry e, or e with its undone flag raised
Kept(e, f) == f = e \/ (~e.undone /\ f = [e EXCEPT !.undone = TRUE])

\* log g keeps every entry of log h in its place
Extends(h, g) == Len(g) >= Len(h) /\ \A i \in 1..Len(h) : Kept(h[i], g[i])

\* C15: no step removes or reorders an entry of the ledger, in memory or in
\* its file, or changes a field of an entry other than undone, which only
\* goes from FALSE to TRUE.
C15_AppendOnly == [][Extends(ledger, ledger') /\ Extends(disk, disk')]_vars

\* a run appended its entries behind the undone entry of an earlier session
C15_Witness ==
    /\ last.op = "exec"
    /\ Len(ledger) > last.before
    /\ \E i \in 1..last.before :
          /\ ledger[i].undone
          /\ ledger[i].session_id # ledger[Len(ledger)].session_id
          /\ ~ledger[Len(ledger)].undone
    /\ disk = ledger

-----------------------------------------------------------------------------
(* C16: a run that is cut short.                                           *)

\* C16: when a real run is cut short, every item it has moved has a live entry
\* of that session in the ledger file.
C16_MovedIsLogged ==
    last.op = "crash" =>
        \A m \in last.moved :
            \E k \in 1..Len(disk) :
                /\ disk[k].session_id = last.session
                /\ disk[k].source = m.src
                /\ disk[k].destination = m.dest
                /\ ~disk[k].undone

-----------------------------------------------------------------------------
(* C17: a move that fails.                                                 *)

FailedItems == {k \in 1..Len(last.plan) : last.plan[k].what = "error"}

\* C17: a real run goes through every folder result and every file result in
\* order whatever failed before; a failed move is counted as an error and in
\* no category of the returned counts, and leaves no ledger entry.
C17_ErrorContinues ==
    RealRun =>
        /\ Len(last.plan) = Len(folder_results) + Len(results)
        /\ \A k \in 1..Len(folder_results) :
              last.plan[k].phase = "folder" /\ last.plan[k].src = folder_results[k].folder_path
        /\ \A k \in 1..Len(results) :
              /\ last.plan[Len(folder_results) + k].phase = "file"
              /\ last.plan[Len(folder_results) + k].src = results[k].filepath
        /\ last.errors = Cardinality(FailedItems)
        /\ \A c \in DOMAIN last.ret :
              last.ret[c] = Cardinality({k \in MovedItems : last.plan[k].category = c})
        /\ Len(ledger) = last.before + Cardinality(MovedItems)

\* a move failed and a later item of the same run was moved
C17_Witness ==
    /\ RealRun
    /\ \E i \in FailedItems, j \in MovedItems : i < j
    /\ last.errors = 1

-----------------------------------------------------------------------------
(* C18: a dry run.                                                         *)

DryStepTaken == ops' = ops + 1 /\ last'.op = "exec" /\ last'.dry_run

\* C18: a dry run, whatever its other arguments, leaves the file system, the
\* ledger and the ledger file as they were and asks no question.
C18_DryRunChangesNothing ==
    [][DryStepTaken =>
          /\ fs' = fs
          /\ ledger' = ledger
          /\ disk' = disk
          /\ saves' = saves
          /\ last'.asked = <<>>]_vars

\* an interactive dry run planned a folder and a file for folders that do not
\* exist, and they still do not exist
C18_Witness ==
    /\ last.op = "exec" /\ last.dry_run /\ last.interactive
    /\ \E j, k \in 1..Len(last.plan) :
          /\ last.plan[j].phase = "folder" /\ last.plan[j].what = "dry"
          /\ last.plan[k].phase = "file" /\ last.plan[k].what = "dry"
          /\ ~Exists(fs, last.plan[j].dest_folder)
          /\ ~Exists(fs, last.plan[k].dest_folder)
          /\ Exists(fs, last.plan[j].src)
          /\ Exists(fs, last.plan[k].src)

-----------------------------------------------------------------------------
(* C19: the min_confidence argument.                                       *)

\* confidence_score as it is stored, in hundredths
RawScore(c) == IF c.isInt THEN c.val * 100 ELSE c.val

\* C19: a real run without a misc threshold moves no file whose confidence
\* score is below the min_confidence it was called with.
C19_MinConfidence ==
    (RealRun /\ last.misc_threshold = 0) =>
        \A it \in FileItems :
            last.plan[it[1]].what = "moved"
                => RawScore(results[it[2]].confidence_score) >= last.min_confidence * 100

-----------------------------------------------------------------------------
(* C20: files of the default category.                                     *)

AnyExecStepTaken == ops' = ops + 1 /\ last'.op = "exec"

\* the misc threshold of the step applies to a record of this confidence
BelowMisc(c) == last'.misc_threshold > 0 /\ Normalized(c) < last'.misc_threshold

\* C20: a file of the default category to which no misc threshold applies is
\* skipped by execute_moves: it is where it was, no entry names it, and the
\* returned counts do not count it.
C20_DefaultSkipped ==
    [][AnyExecStepTaken =>
          \A k \in 1..Len(last'.plan), r \in 1..Len(results) :
              (/\ last'.plan[k].phase = "file"
               /\ last'.plan[k].src = results[r].filepath
               /\ results[r].category = default_category
               /\ ~BelowMisc(results[r].confidence_score))
              => /\ last'.plan[k].what = "skipped"
                 /\ last'.skipped >= 1
                 /\ Exists(fs, results[r].filepath) =>
                       (/\ Exists(fs', results[r].filepath)
                        /\ fs'[results[r].filepath] = fs[results[r].filepath])
                 /\ \A i \in Appended : ledger'[i].source # results[r].filepath
                 /\ default_category \notin DOMAIN last'.ret]_vars

\* a real run skipped the file of the default category and moved another file
C20_Witness ==
    /\ RealRun
    /\ last.misc_threshold = 0
    /\ \E it \in FileItems, j \in MovedItems :
          /\ results[it[2]].category = default_category
          /\ last.plan[it[1]].what = "skipped"
          /\ IsFile(fs, last.plan[it[1]].src)
          /\ last.plan[j].phase = "file"

-----------------------------------------------------------------------------
(* C21: the cohesion rule.                                                 *)

\* the sample: the files of the folder, with the category of each
SampleFiles == {q \in Children(fs, MixPath) : IsFile(fs, q)}
SampleCat(q) == Meta(fs[q].id).cat
SampleCount(c) == Cardinality({q \in SampleFiles : SampleCat(q) = c})
SampleCats == {SampleCat(q) : q \in SampleFiles}

\* the categories other than the default one that make up 80% of the sample
Dominating ==
    {c \in SampleCats :
        c # default_category /\ SampleCount(c) * 100 >= 80 * Cardinality(SampleFiles)}

\* C21: the folder is recorded as cohesive exactly when a category other than
\* the configured default makes up at least 80% of its sample; that category
\* is the dominant one, with confidence 1.0 when it is the only category of
\* the sample and its share otherwise. An empty sample is not cohesive.
C21_CohesionRule ==
    last.op = "analyze" =>
        IF Dominating = {}
        THEN folder_results = <<>>
        ELSE /\ Len(folder_results) = 1
             /\ folder_results[1].folder_path = MixPath
             /\ folder_results[1].dominant_category \in Dominating
             /\ folder_results[1].confidence_score =
                   IF Cardinality(SampleCats) = 1 THEN 100
                   ELSE (SampleCount(folder_results[1].dominant_category) * 100)
                            \div Cardinality(SampleFiles)

-----------------------------------------------------------------------------
(* C22: directories that are never moved or analysed.                      *)

Denylist == {"node_modules", "__pycache__", ".git", "venv", "env"}

\* path p is a denylisted directory of the source folder, or lies beneath one
Denied(p) ==
    \E k \in (Len(SRC) + 1)..Len(p) :
        /\ IsPrefix(SRC, p)
        /\ Lower(p[k]) \in Denylist
        /\ (k < Len(p) \/ IsDir(fs, p))

\* C22: a denylisted directory is no folder record, no file beneath it has a
\* file record, and it and all it holds are still in the source folder.
C22_DeniedUntouched ==
    /\ \A i \in 1..Len(folder_results) : ~Denied(folder_results[i].folder_path)
    /\ \A r \in 1..Len(results) : ~Denied(results[r].filepath)
    /\ \A q \in DOMAIN fs : fs[q].id \in {"V", "y", "r2"} => IsPrefix(SRC, q)

-----------------------------------------------------------------------------
(* C23: categorize.                                                        *)

\* keyword k occurs in the text plus file name, whatever the case of either
Occurs(k) ==
    LET joined == last.text \o <<" ">> \o last.filename
    IN \E i \in 0..(Len(joined) - Len(k)) :
          \A j \in 1..Len(k) : LowerChar(joined[i + j]) = LowerChar(k[j])

\* the number of keywords of category c that occur
Hits(c) == Cardinality({n \in 1..Len(Categories[c].keywords) : Occurs(Categories[c].keywords[n])})

-----------------------------------------------------------------------------
(* C24: folder records and file records.                                   *)

\* C24: no file record has the path of a folder record or a path beneath it.
C24_NoDoubleClaim ==
    \A i \in 1..Len(folder_results), r \in 1..Len(results) :
        ~IsPrefix(folder_results[i].folder_path, results[r].filepath)

\* a recursive analysis recorded a folder that holds files, and a file next to it
C24_Witness ==
    /\ last.op = "analyze"
    /\ \E i \in 1..Len(folder_results), r \in 1..Len(results) :
          /\ FilesUnder(fs, folder_results[i].folder_path) # {}
          /\ Dirname(results[r].filepath) = Dirname(folder_results[i].folder_path)

-----------------------------------------------------------------------------
(* C25: the normalisation of confidences.                                  *)

\* C25: the confidence execute_moves compares with the misc threshold is,
\* for every file record, the keyword score divided by 5 when the score is an
\* integer and the score itself when it comes from the vision path.
C25_Normalization ==
    \A r \in 1..Len(results) :
        Normalized(results[r].confidence_score)
            = FifthsNormalized(results[r].confidence_score)

-----------------------------------------------------------------------------
(* C26: how deep discovery goes.                                           *)

\* C26: after discover_existing_folders(max_depth) no entry of the folder
\* cache has a relative path of more than max_depth segments.
C26_WithinMaxDepth ==
    last.op = "discover" =>
        \A name \in DOMAIN cache : Len(cache[name]) <= last.max_depth

-----------------------------------------------------------------------------
(* C27: the directories an interactive run creates.                        *)

AskingStepTaken ==
    ops' = ops + 1 /\ last'.op = "exec" /\ last'.interactive /\ ~last'.dry_run

\* the directories the step made in the destination tree
Created == {p \in DOMAIN fs' \ DOMAIN fs : IsPrefix(DST, p) /\ fs'[p] = MkNode}

\* the folder names the user accepted in the step
Accepted == {n \in DOMAIN last'.decisions : last'.decisions[n]}

\* C27: an interactive real run creates a directory in the destination tree
\* only under a folder name the user accepted in that run.
C27_CreatedOnlyIfAccepted ==
    [][AskingStepTaken => \A p \in Created : Lower(Basename(p)) \in Accepted]_vars

-----------------------------------------------------------------------------
(* C28: an accepted folder name is reused for the later items.             *)

\* item j of the plan was asked about its folder name and the user accepted
AcceptedAt(j) ==
    /\ last.plan[j].prompted
    /\ last.decisions[last.plan[j].proposed]

\* C28: in an interactive real run, an item moved after the user accepted the
\* folder name it proposes is moved into a directory of that name.
C28_AcceptedNameReused ==
    (last.op = "exec" /\ last.interactive /\ ~last.dry_run) =>
        \A j, k \in 1..Len(last.plan) :
            (/\ j < k
             /\ AcceptedAt(j)
             /\ last.plan[k].proposed = last.plan[j].proposed
             /\ last.plan[k].what = "moved")
            => Lower(Basename(last.plan[k].dest_folder)) = last.plan[j].proposed

-----------------------------------------------------------------------------
(* C29: the files a recursive analysis records.                            *)

\* a file of the source tree with no hidden name on its path
PlainSourceFiles ==
    {q \in DOMAIN fs :
        /\ IsFile(fs, q)
        /\ Len(q) > Len(SRC) /\ IsPrefix(SRC, q)
        /\ \A i \in (Len(SRC) + 1)..Len(q) : ~IsHiddenName(q[i])}

BeneathFolderRecord(q) ==
    \E i \in 1..Len(folder_results) : IsPrefix(folder_results[i].folder_path, q)

\* C29: after a recursive analysis without max_files, every file of the
\* source tree that is not hidden and not beneath a recorded folder has
\* exactly one file record.
C29_EveryFileAnalyzed ==
    (last.op = "analyze" /\ last.recursive /\ last.max_files = 0) =>
        \A q \in PlainSourceFiles :
            ~BeneathFolderRecord(q) =>
                Cardinality({r \in 1..Len(results) : results[r].filepath = q}) = 1

-----------------------------------------------------------------------------
(* C30: successive undos.                                                  *)

\* the sessions of a ledger that have an entry not undone
LiveSessions(log) == {log[i].session_id : i \in {j \in 1..Len(log) : ~log[j].undone}}

\* C30: an undo on a ledger with live entries takes the session of the newest
\* live entry, moves back no entry that was already undone, and leaves one
\* live session fewer; an undo on a ledger without live entries returns 0 and
\* changes nothing.  So k undos on k live sessions take them newest first,
\* restore each entry at most once, leave every entry undone, and the next
\* undo does nothing.
C30_SuccessiveUndos ==
    [][UndoStepTaken =>
         IF LiveSessions(ledger) = {}
         THEN /\ last'.ret = 0 /\ last'.moves = {}
              /\ fs' = fs /\ ledger' = ledger /\ disk' = disk
         ELSE /\ last'.session = ledger[NewestLive].session_id
              /\ last'.moves = Targeted
              /\ last'.done \subseteq last'.moves
              /\ \A i \in 1..Len(ledger) : ledger[i].undone => i \notin last'.done
              /\ Len(ledger') = Len(ledger)
              /\ \A i \in 1..Len(ledger) : ledger[i].undone => ledger'[i].undone
              /\ LiveSessions(ledger') = LiveSessions(ledger) \ {last'.session}
              /\ Cardinality(LiveSessions(ledger')) = Cardinality(LiveSessions(ledger)) - 1
    ]_vars

\* an undo found nothing to do on a ledger of two sessions, both undone, of
\* which the newer one was restored
C30_Witness ==
    /\ last.op = "undo" /\ last.session = 0
    /\ \A i \in 1..Len(ledger) : ledger[i].undone
    /\ \E i, j \in 1..Len(ledger) :
          /\ i < j /\ ledger[i].session_id # ledger[j].session_id
          /\ ~Exists(fs, ledger[j].destination)
          /\ Exists(fs, ledger[j].source)

\* an engine ran twice under one session id with an undo in between, and a
\* second undo moved back the entries of the second run only
C30_ReuseReached ==
    /\ last.op = "undo"
    /\ \E i, j \in 1..Len(ledger) :
          /\ i < j /\ ledger[i].session_id = ledger[j].session_id
          /\ i \notin last.moves /\ j \in last.done

====
